---- MODULE Spec2Model ----
(***************************************************************************)
(* Model of the hosting dashboard (src/pages/index.js): the CSV decoder,   *)
(* the dataset load of the Home component, the derived views (filtered     *)
(* rows, match suggestions, merged incidents) and the incident ledger.     *)
(* JavaScript strings are TLA+ strings; records are functions from field   *)
(* name to string, as parseCSV builds them.                                *)
(***************************************************************************)
EXTENDS Integers, Sequences, FiniteSets, TLC

VARIABLES
    hosts, guests, matches, incidents, comms,  \* useState collections (committed)
    tab, filters, search,                      \* useState filter inputs
    addedIncidents,                            \* useState session-local incidents
    net,          \* per source: outcome of fetch(path), "pending" until it settles
    promise,      \* per source: state of the fetchCsv(path) promise
    loadPc,       \* position of the async load function of useEffect
    pending,      \* state updates enqueued by setX and not yet rendered
    ver,          \* ghost: per collection, the load generation that produced it
    gen,          \* ghost: generation of the current page load
    addLog,       \* ghost: rows passed to setAddedIncidents, in call order
    hIn, hOut, hPc   \* a derivation applied to drawn inputs: inputs, result, position

vars == <<hosts, guests, matches, incidents, comms, tab, filters, search,
          addedIncidents, net, promise, loadPc, pending, ver, gen, addLog,
          hIn, hOut, hPc>>

-----------------------------------------------------------------------------
(* Bounds *)

MaxAdded == 2
MaxReloads == 1
MaxRows == 2
MaxFilterRows == 2
MaxRecs == 2

-----------------------------------------------------------------------------
(* JavaScript string primitives *)

Min(S) == CHOOSE x \in S : \A y \in S : x <= y
Max(S) == CHOOSE x \in S : \A y \in S : x >= y

Char(s, i) == SubSeq(s, i, i)

\* White space as String.prototype.trim and the regex class \s see it.
WhiteSpace == {" ", "\t", "\n", "\r", "\f"}

Trim(s) ==
    LET keep == {i \in 1..Len(s) : Char(s, i) \notin WhiteSpace}
    IN  IF keep = {} THEN "" ELSE SubSeq(s, Min(keep), Max(keep))

UpperToLower ==
    [A |-> "a", B |-> "b", C |-> "c", D |-> "d", E |-> "e", F |-> "f", G |-> "g",
     H |-> "h", I |-> "i", J |-> "j", K |-> "k", L |-> "l", M |-> "m", N |-> "n",
     O |-> "o", P |-> "p", Q |-> "q", R |-> "r", S |-> "s", T |-> "t", U |-> "u",
     V |-> "v", W |-> "w", X |-> "x", Y |-> "y", Z |-> "z"]

RECURSIVE ToLowerCase(_)
ToLowerCase(s) ==
    IF s = "" THEN ""
    ELSE LET c == Char(s, 1)
         IN  (IF c \in DOMAIN UpperToLower THEN UpperToLower[c] ELSE c)
             \o ToLowerCase(SubSeq(s, 2, Len(s)))

Includes(s, t) ==
    \E i \in 1..(Len(s) - Len(t) + 1) : SubSeq(s, i, i + Len(t) - 1) = t

StartsWith(s, t) == Len(t) <= Len(s) /\ SubSeq(s, 1, Len(t)) = t

\* s.split(",")
RECURSIVE SplitComma(_)
SplitComma(s) ==
    LET at == {i \in 1..Len(s) : Char(s, i) = ","}
    IN  IF at = {} THEN <<s>>
        ELSE <<SubSeq(s, 1, Min(at) - 1)>>
             \o SplitComma(SubSeq(s, Min(at) + 1, Len(s)))

\* s.split(/\r?\n/)
RECURSIVE SplitLines(_)
SplitLines(s) ==
    LET at == {i \in 1..Len(s) : Char(s, i) = "\n"}
    IN  IF at = {} THEN <<s>>
        ELSE LET i == Min(at)
                 from == IF i > 1 /\ Char(s, i - 1) = "\r" THEN i - 1 ELSE i
             IN  <<SubSeq(s, 1, from - 1)>> \o SplitLines(SubSeq(s, i + 1, Len(s)))

\* s.split(/[;,\s]+/)
TokenSeparators == WhiteSpace \cup {";", ","}

RECURSIVE SplitTokens(_)
SplitTokens(s) ==
    LET at == {i \in 1..Len(s) : Char(s, i) \in TokenSeparators}
    IN  IF at = {} THEN <<s>>
        ELSE LET i == Min(at)
                 after == {j \in (i + 1)..Len(s) : Char(s, j) \notin TokenSeparators}
                 next == IF after = {} THEN Len(s) + 1 ELSE Min(after)
             IN  <<SubSeq(s, 1, i - 1)>> \o SplitTokens(SubSeq(s, next, Len(s)))

\* Value of r.k when the field is absent.
Undefined == "\nundefined"

\* r.k
Field(r, k) == IF k \in DOMAIN r THEN r[k] ELSE Undefined

\* String(r.k || "")
Str(r, k) == IF k \in DOMAIN r THEN r[k] ELSE ""

-----------------------------------------------------------------------------
(* Tabular decoder *)

\* headers.forEach((h, i) => (row[h.trim()] = (cols[i] || "").trim()))
RowOf(headers, cols) ==
    [k \in {Trim(headers[i]) : i \in 1..Len(headers)} |->
        LET i == Max({j \in 1..Len(headers) : Trim(headers[j]) = k})
        IN  IF i <= Len(cols) THEN Trim(cols[i]) ELSE ""]

\* Mutant of parseCSV: the header line is not skipped (lines.slice(0)).
parseCSVKeepsHeader(text) ==
    LET lines == SplitLines(Trim(text))
        headers == SplitComma(lines[1])
    IN  [n \in 1..Len(lines) |-> RowOf(headers, SplitComma(lines[n]))]

parseCSV(text) ==
    LET lines == SplitLines(Trim(text))
        headers == SplitComma(lines[1])
    IN  IF Len(lines) = 0 THEN <<>>
        ELSE [n \in 1..(Len(lines) - 1) |-> RowOf(headers, SplitComma(lines[n + 1]))]

-----------------------------------------------------------------------------
(* Matching engine *)

MaxSuggestions == 50

\* Mutant of genderOk: the guest's gender is not looked at.
genderOkHostOnly(pref, gg) ==
    \/ pref = ""
    \/ pref = "any"
    \/ Includes(pref, "female")
    \/ Includes(pref, "male")
    \/ Includes(pref, "nonbinary")

genderOk(pref, gg) ==
    \/ pref = ""
    \/ pref = "any"
    \/ (Includes(pref, "female") /\ StartsWith(gg, "f"))
    \/ (Includes(pref, "male") /\ StartsWith(gg, "m"))
    \/ (Includes(pref, "nonbinary") /\ StartsWith(gg, "n"))

\* Mutant of allergyOk: the host text is matched whole, not token by token.
allergyOkWholeText(ga, ha) == ga = "" \/ ha = "" \/ ~Includes(ga, ha)

allergyOk(ga, ha) ==
    \/ ga = ""
    \/ ha = ""
    \/ LET toks == SplitTokens(ha)
       IN  ~ \E i \in 1..Len(toks) : toks[i] # "" /\ Includes(ga, toks[i])

accessOk(g, h) ==
    /\ Includes(ToLowerCase(Str(g, "accessibility")), "wheelchair")
    /\ Includes(ToLowerCase(Str(h, "accessibility")), "elevator")

confirmedOk(g, h) ==
    /\ ToLowerCase(Str(g, "confirmed")) = "yes"
    /\ ToLowerCase(Str(h, "confirmed")) = "yes"

\* Body of the inner forEach for one (g, h): the entries pushed to out.
scorePair(g, h) ==
    LET pref == ToLowerCase(Str(h, "gender_comfort"))
        gg == ToLowerCase(Str(g, "gender"))
        gOk == genderOk(pref, gg)
        aOk == allergyOk(ToLowerCase(Str(g, "allergies")), ToLowerCase(Str(h, "allergies")))
        score == (IF gOk THEN 10 ELSE 0) + (IF aOk THEN 5 ELSE 0)
                 + (IF accessOk(g, h) THEN 3 ELSE 0) + (IF confirmedOk(g, h) THEN 2 ELSE 0)
        reasons == (IF gOk THEN <<"Gender comfort ok">> ELSE <<>>)
                   \o (IF aOk THEN <<"Allergies compatible">> ELSE <<>>)
                   \o (IF accessOk(g, h) THEN <<"Accessibility">> ELSE <<>>)
                   \o (IF confirmedOk(g, h) THEN <<"Both confirmed">> ELSE <<>>)
    IN  IF ~gOk THEN <<>>
        ELSE IF score > 0
             THEN <<[guest_id |-> Field(g, "id"), host_id |-> Field(h, "id"),
                     score |-> score, reasons |-> reasons]>>
             ELSE <<>>

\* guests.forEach(g => hosts.forEach(h => ...)): what the pairs numbered lo..hi
\* (guest-major, host-minor) push to out, in that order.
RECURSIVE collectPairs(_, _, _, _)
collectPairs(gs, hs, lo, hi) ==
    IF lo > hi THEN <<>>
    ELSE IF lo = hi
         THEN scorePair(gs[((lo - 1) \div Len(hs)) + 1], hs[((lo - 1) % Len(hs)) + 1])
         ELSE LET mid == (lo + hi) \div 2
              IN  collectPairs(gs, hs, lo, mid) \o collectPairs(gs, hs, mid + 1, hi)

\* Mutant of sortByScore: the sort is not stable (ties come out reversed).
sortByScoreUnstable(out) ==
    LET place(i) == Cardinality({j \in 1..Len(out) : out[j].score > out[i].score})
                    + Cardinality({j \in i..Len(out) : out[j].score = out[i].score})
    IN  [p \in 1..Len(out) |-> out[CHOOSE i \in 1..Len(out) : place(i) = p]]

\* out.sort((a, b) => b.score - a.score): Array.prototype.sort is stable, so an
\* entry lands after every entry of higher score and every earlier entry of
\* equal score.
sortByScore(out) ==
    LET place(i) == Cardinality({j \in 1..Len(out) : out[j].score > out[i].score})
                    + Cardinality({j \in 1..i : out[j].score = out[i].score})
    IN  [p \in 1..Len(out) |-> out[CHOOSE i \in 1..Len(out) : place(i) = p]]

\* Mutant of sliceTop: the cap is dropped.
sliceNone(arr, n) == arr

\* arr.slice(0, n)
sliceTop(arr, n) == SubSeq(arr, 1, IF Len(arr) < n THEN Len(arr) ELSE n)

suggestionsOf(gs, hs) ==
    sliceTop(sortByScore(collectPairs(gs, hs, 1, Len(gs) * Len(hs))), MaxSuggestions)

suggestions == suggestionsOf(guests, hosts)

-----------------------------------------------------------------------------
(* Filter engine *)

genderField(r) ==
    IF Str(r, "gender_comfort") # "" THEN Str(r, "gender_comfort") ELSE Str(r, "gender")

\* Mutant of rowPasses: the name search is not applied.
rowPassesNoSearch(r, f, q) ==
    LET g == ToLowerCase(genderField(r))
        a == ToLowerCase(Str(r, "allergies"))
        ac == ToLowerCase(Str(r, "accessibility"))
    IN  /\ f.gender = "all" \/ Includes(g, f.gender)
        /\ f.allergy = "all" \/ Includes(a, f.allergy)
        /\ f.access = "all" \/ Includes(ac, f.access)

rowPasses(r, f, q) ==
    LET g == ToLowerCase(genderField(r))
        a == ToLowerCase(Str(r, "allergies"))
        ac == ToLowerCase(Str(r, "accessibility"))
        okG == f.gender = "all" \/ Includes(g, f.gender)
        okA == f.allergy = "all" \/ Includes(a, f.allergy)
        okAc == f.access = "all" \/ Includes(ac, f.access)
        okQ == q = "" \/ Includes(ToLowerCase(Str(r, "name")), q)
    IN  okG /\ okA /\ okAc /\ okQ

filteredRowsOf(t, hs, gs, f, s) ==
    LET src == IF t = "hosts" THEN hs ELSE gs
        q == ToLowerCase(s)
        keep(r) == rowPasses(r, f, q)
    IN  SelectSeq(src, keep)

filteredRows == filteredRowsOf(tab, hosts, guests, filters, search)

-----------------------------------------------------------------------------
(* Incident ledger *)

incidentRows == addedIncidents \o incidents

\* The row addIncident builds from the submitted form; now is the clock's ISO string.
incidentRow(fd, now) ==
    [time   |-> IF fd.time # "" THEN fd.time ELSE now,
     type   |-> fd.type,
     person |-> fd.person,
     status |-> IF fd.status # "" THEN fd.status ELSE "Open",
     notes  |-> fd.notes]

\* Mutant of prependRow: the new row is appended.
appendRow(row, list) == list \o <<row>>

\* [row, ...addedIncidents]
prependRow(row, list) == <<row>> \o list

-----------------------------------------------------------------------------
(* Dataset loader: the five sources and what their servers may answer *)

SourceNames == {"hosts", "guests", "matches", "incidents", "comms"}

\* Order of the setX calls after the await.
SetOrder == <<"hosts", "guests", "matches", "incidents", "comms">>

HostsCsv ==
    "id,name,gender_comfort,allergies,accessibility,confirmed\r\n"
    \o "h1,Ann,female,peanuts,Elevator,yes\r\n"
    \o "h2,Bea,any,,,no\r\n"

HostsCsvLarge ==
    "id,gender_comfort,confirmed\n"
    \o "h1,any,yes\nh2,,no\nh3,any,yes\nh4,male,no\nh5,any,no\nh6,,yes\nh7,any,no"

GuestsCsv ==
    "id, name, gender, allergies, accessibility, confirmed\n"
    \o "g1, Cal, Female, , wheelchair, Yes\n"
    \o "g2, Dee, nonbinary, peanuts\n"

GuestsCsvLarge ==
    "id,gender,confirmed\n"
    \o "g1,male,yes\ng2,m,no\ng3,male,yes\ng4,male,no\n"
    \o "g5,male,yes\ng6,male,no\ng7,female,yes\ng8,male,no\n"

MatchesCsv == "guest_id,host_id\ng1,h1"

IncidentsCsv ==
    "time,type,person,status,notes\n"
    \o "08:00,Medical,Cal,Open,X\n"
    \o "08:30,Lost item,Dee,Closed,Y\n"

CommsCsv == "date,type,owner,status,notes\n2025-04-01,Email,Ann,Sent,"

Responses(s) ==
    CASE s = "hosts" -> {HostsCsv, HostsCsvLarge}
      [] s = "guests" -> {GuestsCsv, GuestsCsvLarge}
      [] s = "matches" -> {MatchesCsv}
      [] s = "incidents" -> {IncidentsCsv}
      [] s = "comms" -> {CommsCsv}

\* parseCSV on each text a server may answer with (evaluated once).
Decoded == [t \in UNION {Responses(s) : s \in SourceNames} |-> parseCSV(t)]

\* fetchCsv(path) for one outcome of fetch(path): the state its promise settles in.
fetchCsv(outcome) ==
    IF outcome.kind = "error" THEN [state |-> "rejected"]
    ELSE IF outcome.kind = "notok" THEN [state |-> "fulfilled", value |-> <<>>]
    ELSE [state |-> "fulfilled", value |-> Decoded[outcome.text]]

\* Promise.all over the five fetchCsv promises.
promiseAll(ps) ==
    IF \E s \in SourceNames : ps[s].state = "rejected" THEN "rejected"
    ELSE IF \A s \in SourceNames : ps[s].state = "fulfilled" THEN "fulfilled"
    ELSE "pending"

\* The load function is between two of its setX calls (inside one task).
midTask(pc) == pc \in SourceNames

\* Mutant of canRender: every setX call renders at once (no batching).
canRenderUnbatched(pc) == TRUE

\* A render happens only once the running task has returned: the five setX
\* calls of one continuation are batched into a single render.
canRender(pc) == ~midTask(pc)

nextPc(pc) ==
    LET i == CHOOSE j \in 1..Len(SetOrder) : SetOrder[j] = pc
    IN  IF i = Len(SetOrder) THEN "done" ELSE SetOrder[i + 1]

NoUpdates == [s \in {} |-> <<>>]

committed(s) ==
    CASE s = "hosts" -> hosts
      [] s = "guests" -> guests
      [] s = "matches" -> matches
      [] s = "incidents" -> incidents
      [] s = "comms" -> comms

\* Value of collection s after the queued updates are applied.
rendered(s) == IF s \in DOMAIN pending THEN pending[s] ELSE committed(s)

Forms ==
    {[time |-> "", type |-> "Medical", person |-> "Ann", status |-> "Open", notes |-> "A"],
     [time |-> "09:30", type |-> "Lost item", person |-> "Bea", status |-> "", notes |-> "B"]}

Clock == {"2025-04-01T09:00:00.000Z"}

-----------------------------------------------------------------------------
(* The page *)

InitFilters == [gender |-> "all", allergy |-> "all", access |-> "all"]
NetPending == [s \in SourceNames |-> [kind |-> "pending"]]
PromisePending == [s \in SourceNames |-> [state |-> "pending"]]
VerNone == [s \in SourceNames |-> 0]

\* Home as first rendered: every useState at its initial value, the effect started.
HomeInit ==
    /\ hosts = <<>>
    /\ guests = <<>>
    /\ matches = <<>>
    /\ incidents = <<>>
    /\ comms = <<>>
    /\ tab = "hosts"
    /\ filters = InitFilters
    /\ search = ""
    /\ addedIncidents = <<>>
    /\ net = NetPending
    /\ promise = PromisePending
    /\ loadPc = "await"
    /\ pending = NoUpdates
    /\ ver = VerNone
    /\ addLog = <<>>

HarnessOff == hIn = <<>> /\ hOut = <<>> /\ hPc = "off"

Init == HomeInit /\ gen = 1 /\ HarnessOff

harnessVars == <<hIn, hOut, hPc>>
filterVars == <<tab, filters, search>>
collVars == <<hosts, guests, matches, incidents, comms, ver>>

\* fetch(path) settles for source s.
Settle(s, outcome) ==
    /\ ~midTask(loadPc)
    /\ net[s].kind = "pending"
    /\ net' = [net EXCEPT ![s] = outcome]
    /\ promise' = [promise EXCEPT ![s] = fetchCsv(outcome)]
    /\ UNCHANGED <<collVars, filterVars, addedIncidents, loadPc, pending, gen,
                   addLog, harnessVars>>

FetchOk(s, text) == Settle(s, [kind |-> "ok", text |-> text])

FetchNotOk(s) == Settle(s, [kind |-> "notok"])

FetchError(s) == Settle(s, [kind |-> "error"])

\* The await on Promise.all returns, or throws out of the async function.
LoadResume ==
    /\ loadPc = "await"
    /\ promiseAll(promise) # "pending"
    /\ loadPc' = IF promiseAll(promise) = "fulfilled" THEN SetOrder[1] ELSE "rejected"
    /\ UNCHANGED <<collVars, filterVars, addedIncidents, net, promise, pending, gen,
                   addLog, harnessVars>>

\* setHosts(h); setGuests(g); setMatches(m); setIncidents(i); setComms(c): one call.
SetState(s) ==
    /\ loadPc = s
    /\ pending' = [t \in DOMAIN pending \cup {s} |->
                     IF t = s THEN promise[s].value ELSE pending[t]]
    /\ loadPc' = nextPc(loadPc)
    /\ UNCHANGED <<collVars, filterVars, addedIncidents, net, promise, gen, addLog,
                   harnessVars>>

\* React renders Home with every queued update applied.
Render ==
    /\ pending # NoUpdates
    /\ canRender(loadPc)
    /\ hosts' = rendered("hosts")
    /\ guests' = rendered("guests")
    /\ matches' = rendered("matches")
    /\ incidents' = rendered("incidents")
    /\ comms' = rendered("comms")
    /\ ver' = [s \in SourceNames |-> IF s \in DOMAIN pending THEN gen ELSE ver[s]]
    /\ pending' = NoUpdates
    /\ UNCHANGED <<filterVars, addedIncidents, net, promise, loadPc, gen, addLog,
                   harnessVars>>

\* Submit of the incident form; the update is rendered before the next event.
AddIncident(fd, now) ==
    /\ ~midTask(loadPc)
    /\ Len(addLog) < MaxAdded
    /\ addedIncidents' = prependRow(incidentRow(fd, now), addedIncidents)
    /\ addLog' = Append(addLog, incidentRow(fd, now))
    /\ UNCHANGED <<collVars, filterVars, net, promise, loadPc, pending, gen,
                   harnessVars>>

\* The user refreshes the page: Home is mounted anew and its effect runs again.
Reload ==
    /\ ~midTask(loadPc)
    /\ gen <= MaxReloads
    /\ hosts' = <<>>
    /\ guests' = <<>>
    /\ matches' = <<>>
    /\ incidents' = <<>>
    /\ comms' = <<>>
    /\ tab' = "hosts"
    /\ filters' = InitFilters
    /\ search' = ""
    /\ addedIncidents' = <<>>
    /\ net' = NetPending
    /\ promise' = PromisePending
    /\ loadPc' = "await"
    /\ pending' = NoUpdates
    /\ ver' = VerNone
    /\ addLog' = <<>>
    /\ gen' = gen + 1
    /\ UNCHANGED harnessVars

Next ==
    \/ \E s \in SourceNames : \E text \in Responses(s) : FetchOk(s, text)
    \/ \E s \in SourceNames : FetchNotOk(s)
    \/ \E s \in SourceNames : FetchError(s)
    \/ LoadResume
    \/ \E s \in SourceNames : SetState(s)
    \/ Render
    \/ \E fd \in Forms : \E now \in Clock : AddIncident(fd, now)
    \/ Reload

Spec == Init /\ [][Next]_vars

-----------------------------------------------------------------------------
(* Claims about the page (specification Spec) *)

Reverse(seq) == [i \in 1..Len(seq) |-> seq[Len(seq) + 1 - i]]

\* Every fetch has settled and the load function and React have nothing left to do.
LoadSettled ==
    /\ \A s \in SourceNames : net[s].kind # "pending"
    /\ loadPc \in {"done", "rejected"}
    /\ pending = NoUpdates

\* C1: once the load has run its course, a source whose fetch failed (non-success
\* status or transport error) holds the empty collection and every other source
\* holds its decoded rows.
C1_FailureIsolated ==
    LoadSettled =>
        \A s \in SourceNames :
            committed(s) = IF net[s].kind = "ok" THEN parseCSV(net[s].text) ELSE <<>>

\* C2: every rendered state holds the five collections of one and the same load
\* (all from before the load, or all from the load's results).
C2_AtomicReplace ==
    /\ \A s, t \in SourceNames : ver[s] = ver[t]
    /\ \A s \in SourceNames :
          committed(s) = IF ver[s] = gen THEN promise[s].value ELSE <<>>

C2_Witness ==
    /\ \A s \in SourceNames : ver[s] = gen /\ committed(s) # <<>>
    /\ gen = 2

\* C3: no collection is populated while a fetch is pending, and once all five
\* fetches have settled and the load has run its course all five collections
\* are set by it.
C3_LoadCompletes ==
    /\ (\E s \in SourceNames : net[s].kind = "pending") =>
          \A s \in SourceNames : ver[s] = 0 /\ committed(s) = <<>>
    /\ LoadSettled => \A s \in SourceNames : ver[s] = gen

\* C4: the merged incidents are the added incidents, latest first, followed by
\* the loaded incidents in their order, whatever the interleaving with the load.
C4_MergeOrder ==
    /\ incidentRows = Reverse(addLog) \o incidents
    /\ incidents = IF ver["incidents"] = gen THEN promise["incidents"].value ELSE <<>>

C4_Witness ==
    /\ Len(addLog) = 2
    /\ addLog[1] # addLog[2]
    /\ Len(incidentRows) = 4
    /\ incidentRows[1] = addLog[2]
    /\ incidentRows[2] = addLog[1]
    /\ incidentRows[3].notes = "X"
    /\ incidentRows[4].notes = "Y"

\* C7: the suggestion list never has more than min(50, |guests| * |hosts|) entries.
C7_SuggestionBound ==
    /\ Len(suggestions) <= 50
    /\ Len(suggestions) <= Len(guests) * Len(hosts)

C7_Witness ==
    /\ Len(guests) * Len(hosts) > 50
    /\ Len(suggestions) = 50
    /\ gen = 2

-----------------------------------------------------------------------------
(* The matching engine applied to drawn guest and host collections *)

homeVars == <<hosts, guests, matches, incidents, comms, tab, filters, search,
              addedIncidents, net, promise, loadPc, pending, ver, gen, addLog>>

\* Sequences over pool of length 0..n.
SeqsUpTo(pool, n) == UNION {[1..k -> pool] : k \in 0..n}

\* Rows numbered as a source numbers them: id = prefix followed by the position.
WithIds(rows, prefix) ==
    [i \in 1..Len(rows) |-> [id |-> prefix \o ToString(i)] @@ rows[i]]

GuestFieldwise ==
    [gender : {"Female", "male", "nonbinary-example", ""},
     allergies : {"", "peanuts", "Gluten"},
     accessibility : {"", "Wheelchair user"},
     confirmed : {"yes", "No"}]

HostFieldwise ==
    [gender_comfort : {"", "any", "female", "Male only", "nonbinary", "women"},
     allergies : {"", "peanuts; gluten", "cats"},
     accessibility : {"", "Elevator"},
     confirmed : {"Yes", "no"}]

ExampleHost ==
    [allergies |-> "peanuts", accessibility |-> "elevator", confirmed |-> "yes",
     gender_comfort |-> "any"]

ExampleGuest ==
    [allergies |-> "", accessibility |-> "wheelchair", confirmed |-> "yes",
     gender |-> "female"]

GuestPool ==
    {ExampleGuest,
     [gender |-> "Female", allergies |-> "Peanuts, dust"],
     [gender |-> "nonbinary-example", confirmed |-> "yes"],
     [gender |-> "Male", allergies |-> "gluten", accessibility |-> "Wheelchair"]}

HostPool ==
    {ExampleHost,
     [gender_comfort |-> "female", allergies |-> "peanuts;gluten", confirmed |-> "Yes"],
     [gender_comfort |-> "Nonbinary or male", accessibility |-> "elevator"],
     [name |-> "Eve"]}

\* Inputs of the matching engine, collections of the pools having up to n rows.
MatchInputs(n) ==
    {[guests |-> WithIds(<<g>>, "g"), hosts |-> WithIds(<<h>>, "h")] :
        g \in GuestFieldwise, h \in HostFieldwise}
    \cup {[guests |-> WithIds(gs, "g"), hosts |-> WithIds(hs, "h")] :
            gs \in SeqsUpTo(GuestPool, n), hs \in SeqsUpTo(HostPool, n)}
    \cup {[guests |-> Decoded[GuestsCsvLarge], hosts |-> Decoded[HostsCsvLarge]],
          [guests |-> Decoded[GuestsCsvLarge], hosts |-> Decoded[HostsCsv]],
          [guests |-> Decoded[GuestsCsv], hosts |-> Decoded[HostsCsvLarge]]}

\* Home holding the collections and filter inputs given; the load machinery is
\* at rest and plays no part.
HomeWith(hs, gs, t, f, q) ==
    /\ hosts = hs
    /\ guests = gs
    /\ matches = <<>>
    /\ incidents = <<>>
    /\ comms = <<>>
    /\ tab = t
    /\ filters = f
    /\ search = q
    /\ addedIncidents = <<>>
    /\ net = NetPending
    /\ promise = PromisePending
    /\ loadPc = "done"
    /\ pending = NoUpdates
    /\ ver = VerNone
    /\ gen = 1
    /\ addLog = <<>>

MatchInit ==
    /\ \E in \in MatchInputs(MaxRows) : HomeWith(in.hosts, in.guests, "hosts", InitFilters, "")
    /\ hIn = <<>>
    /\ hOut = <<>>
    /\ hPc = "match"

\* The suggestions memo is computed for the collections.
Match ==
    /\ hPc = "match"
    /\ hOut' = suggestions
    /\ hPc' = "matched"
    /\ UNCHANGED <<homeVars, hIn>>

MatchNext == Match

SpecMatch == MatchInit /\ [][MatchNext]_vars

-----------------------------------------------------------------------------
(* Claims about the matching engine (specification SpecMatch) *)

Matched == hPc = "matched"

GuestAt(k) == CHOOSE i \in 1..Len(guests) : guests[i].id = hOut[k].guest_id
HostAt(k) == CHOOSE i \in 1..Len(hosts) : hosts[i].id = hOut[k].host_id

AllPairs == (1..Len(guests)) \X (1..Len(hosts))

\* Position of a pair in the guest-major, host-minor enumeration.
EnumIndex(gi, hi) == (gi - 1) * Len(hosts) + hi

Paired(gi, hi) ==
    \E k \in 1..Len(hOut) :
        hOut[k].guest_id = guests[gi].id /\ hOut[k].host_id = hosts[hi].id

\* The gate as the specification words it.
GateSpec(g, h) ==
    LET pref == ToLowerCase(Str(h, "gender_comfort"))
        gg == ToLowerCase(Str(g, "gender"))
    IN  \/ pref = ""
        \/ pref = "any"
        \/ Includes(pref, "female") /\ StartsWith(gg, "f")
        \/ Includes(pref, "male") /\ StartsWith(gg, "m")
        \/ Includes(pref, "nonbinary") /\ StartsWith(gg, "n")

Passing == {p \in AllPairs : GateSpec(guests[p[1]], hosts[p[2]])}

\* C5: a pair failing the gender gate is never suggested, and (below the cap) a
\* pair passing it is; a host with gender_comfort "female" is never paired with a
\* guest whose gender starts with n and is paired with a guest of gender "Female".
C5_GenderGate ==
    Matched =>
        \A p \in AllPairs :
            LET g == guests[p[1]]
                h == hosts[p[2]]
            IN  /\ ~GateSpec(g, h) => ~Paired(p[1], p[2])
                /\ (GateSpec(g, h) /\ Cardinality(Passing) <= MaxSuggestions)
                      => Paired(p[1], p[2])
                /\ Str(h, "gender_comfort") = "female" =>
                      /\ StartsWith(ToLowerCase(Str(g, "gender")), "n") => ~Paired(p[1], p[2])
                      /\ (Str(g, "gender") = "Female" /\ Cardinality(Passing) <= MaxSuggestions)
                            => Paired(p[1], p[2])

C5_Witness ==
    /\ Matched
    /\ \E p, q \in AllPairs :
          /\ p[2] = q[2]
          /\ Str(hosts[p[2]], "gender_comfort") = "female"
          /\ Str(guests[p[1]], "gender") = "nonbinary-example"
          /\ ~Paired(p[1], p[2])
          /\ Str(guests[q[1]], "gender") = "Female"
          /\ Paired(q[1], q[2])

\* The score and reasons as the specification words them; lowered says whether the
\* allergy and accessibility texts are compared lower-cased.
Text(r, k, lowered) == IF lowered THEN ToLowerCase(Str(r, k)) ELSE Str(r, k)

AllergySpec(g, h, lowered) ==
    LET ga == Text(g, "allergies", lowered)
        toks == SplitTokens(Text(h, "allergies", lowered))
    IN  \/ ga = ""
        \/ Text(h, "allergies", lowered) = ""
        \/ \A i \in 1..Len(toks) : toks[i] = "" \/ ~Includes(ga, toks[i])

AccessSpec(g, h, lowered) ==
    /\ Includes(Text(g, "accessibility", lowered), "wheelchair")
    /\ Includes(Text(h, "accessibility", lowered), "elevator")

ConfirmedSpec(g, h) ==
    ToLowerCase(Str(g, "confirmed")) = "yes" /\ ToLowerCase(Str(h, "confirmed")) = "yes"

ScoreSpec(g, h, lowered) ==
    10 + (IF AllergySpec(g, h, lowered) THEN 5 ELSE 0)
       + (IF AccessSpec(g, h, lowered) THEN 3 ELSE 0)
       + (IF ConfirmedSpec(g, h) THEN 2 ELSE 0)

ReasonsSpec(g, h, lowered) ==
    <<"Gender comfort ok">>
    \o (IF AllergySpec(g, h, lowered) THEN <<"Allergies compatible">> ELSE <<>>)
    \o (IF AccessSpec(g, h, lowered) THEN <<"Accessibility">> ELSE <<>>)
    \o (IF ConfirmedSpec(g, h) THEN <<"Both confirmed">> ELSE <<>>)

IsExamplePair(g, h) ==
    /\ \A f \in DOMAIN ExampleGuest : Str(g, f) = ExampleGuest[f]
    /\ \A f \in DOMAIN ExampleHost : Str(h, f) = ExampleHost[f]

ScoresAsSpecified(lowered) ==
    Matched =>
        \A k \in 1..Len(hOut) :
            LET g == guests[GuestAt(k)]
                h == hosts[HostAt(k)]
            IN  /\ hOut[k].score = ScoreSpec(g, h, lowered)
                /\ hOut[k].reasons = ReasonsSpec(g, h, lowered)
                /\ hOut[k].score >= 10
                /\ hOut[k].reasons[1] = "Gender comfort ok"
                /\ IsExamplePair(g, h) =>
                      /\ hOut[k].score = 20
                      /\ hOut[k].reasons = <<"Gender comfort ok", "Allergies compatible",
                                             "Accessibility", "Both confirmed">>

\* C8 as claimed: every suggestion's score is 10, +5 for compatible allergies,
\* +3 for wheelchair/elevator, +2 for both confirmed (lower-cased), with the
\* allergy and accessibility texts compared as they are written.
C8_ScoreLiteral == ScoresAsSpecified(FALSE)

\* C8 as amended: the same score and reasons, with the allergy and accessibility
\* texts of guest and host lower-cased before they are compared.
C8_Score == ScoresAsSpecified(TRUE)

C8_Witness ==
    /\ Matched
    /\ \E k \in 1..Len(hOut) :
          /\ Str(guests[GuestAt(k)], "accessibility") = "Wheelchair user"
          /\ hOut[k].score = 20
          /\ Len(hOut[k].reasons) = 4

\* C6: the suggestions are the gate-passing pairs in descending score, equal
\* scores in guest-major host-minor enumeration order, cut to the first 50.
C6_Ranked ==
    Matched =>
        /\ Len(hOut) = IF Cardinality(Passing) < 50 THEN Cardinality(Passing) ELSE 50
        /\ \A k \in 1..Len(hOut) : <<GuestAt(k), HostAt(k)>> \in Passing
        /\ \A k \in 1..(Len(hOut) - 1) :
              \/ hOut[k].score > hOut[k + 1].score
              \/ /\ hOut[k].score = hOut[k + 1].score
                 /\ EnumIndex(GuestAt(k), HostAt(k)) < EnumIndex(GuestAt(k + 1), HostAt(k + 1))
        /\ \A p \in Passing :
              Paired(p[1], p[2]) \/
                  LET last == Len(hOut)
                      sc == ScoreSpec(guests[p[1]], hosts[p[2]], TRUE)
                  IN  \/ sc < hOut[last].score
                      \/ /\ sc = hOut[last].score
                         /\ EnumIndex(p[1], p[2]) > EnumIndex(GuestAt(last), HostAt(last))

C6_Witness ==
    /\ Matched
    /\ Cardinality(Passing) > 50
    /\ Len(hOut) = 50
    /\ \E k \in 1..49 : hOut[k].score > hOut[k + 1].score
    /\ \E k \in 1..49 : hOut[k].score = hOut[k + 1].score
    /\ \E p \in Passing :
          /\ ~Paired(p[1], p[2])
          /\ ScoreSpec(guests[p[1]], hosts[p[2]], TRUE) = hOut[50].score

-----------------------------------------------------------------------------
(* The filter engine applied to drawn collections and filter inputs *)

FilterChoices ==
    [gender : {"all", "female", "male", "nonbinary"},
     allergy : {"all", "gluten", "peanuts"},
     access : {"all", "wheelchair", "elevator"}]

SearchChoices == {"", "An"}

FilterHostPool ==
    {[name |-> "Ann", gender_comfort |-> "Female", allergies |-> "Peanuts",
      accessibility |-> "elevator"],
     [name |-> "Bob", gender_comfort |-> "female or nonbinary",
      allergies |-> "gluten; peanuts", accessibility |-> "Elevator, wheelchair ramp"],
     [name |-> "joANna", gender_comfort |-> "", gender |-> "male"]}

FilterGuestPool ==
    {[name |-> "Hana", gender |-> "female", allergies |-> "gluten",
      accessibility |-> "Wheelchair"],
     [name |-> "Sam", gender |-> "nonbinary", gender_comfort |-> "male",
      allergies |-> "peanuts", accessibility |-> "wheelchair"],
     [gender |-> "Male"]}

\* Inputs of the filter engine, collections of the pools having up to n rows.
FilterInputs(n) ==
    [tab : {"hosts", "guests"},
     filters : FilterChoices,
     search : SearchChoices,
     hosts : SeqsUpTo(FilterHostPool, n),
     guests : SeqsUpTo(FilterGuestPool, n)]

FilterInit ==
    /\ \E in \in FilterInputs(MaxFilterRows) : HomeWith(in.hosts, in.guests, in.tab, in.filters, in.search)
    /\ hIn = <<>>
    /\ hOut = <<>>
    /\ hPc = "filter"

\* The filteredRows memo is computed for the tab, collections, filters and search.
Filter ==
    /\ hPc = "filter"
    /\ hOut' = filteredRows
    /\ hPc' = "filtered"
    /\ UNCHANGED <<homeVars, hIn>>

FilterNext == Filter

SpecFilter == FilterInit /\ [][FilterNext]_vars

-----------------------------------------------------------------------------
(* Claims about the filter engine (specification SpecFilter) *)

Filtered == hPc = "filtered"

ActiveRows == IF tab = "hosts" THEN hosts ELSE guests

\* The four predicates as the specification words them, for a gender-like text gl.
FilterSpec(r, gl) ==
    /\ filters.gender = "all" \/ Includes(ToLowerCase(gl), filters.gender)
    /\ filters.allergy = "all"
          \/ Includes(ToLowerCase(Str(r, "allergies")), filters.allergy)
    /\ filters.access = "all"
          \/ Includes(ToLowerCase(Str(r, "accessibility")), filters.access)
    /\ search = ""
          \/ Includes(ToLowerCase(Str(r, "name")), ToLowerCase(search))

\* Gender-like field by record class: gender for a guest, gender_comfort for a host.
GenderByClass(r) == IF tab = "hosts" THEN Str(r, "gender_comfort") ELSE Str(r, "gender")

\* Gender-like field by presence: gender_comfort when non-empty, gender otherwise.
GenderByPresence(r) ==
    IF Str(r, "gender_comfort") # "" THEN Str(r, "gender_comfort") ELSE Str(r, "gender")

PassByClass(r) == FilterSpec(r, GenderByClass(r))
PassByPresence(r) == FilterSpec(r, GenderByPresence(r))

\* C10 as claimed: the filtered rows are exactly the active class's records, in
\* order, that pass all four predicates, the gender predicate reading gender for
\* a guest and gender_comfort for a host.
C10_FilterByClass == Filtered => hOut = SelectSeq(ActiveRows, PassByClass)

\* C10 as amended: the same, the gender predicate reading the record's
\* gender_comfort when it is non-empty and its gender otherwise, for either class.
C10_Filter == Filtered => hOut = SelectSeq(ActiveRows, PassByPresence)

\* A record failing only the name search is excluded next to one passing all four.
C10_Witness ==
    /\ Filtered
    /\ filters.gender # "all" /\ filters.allergy # "all"
    /\ filters.access # "all" /\ search # ""
    /\ Len(ActiveRows) = 2
    /\ Len(hOut) = 1
    /\ \E i \in 1..2 :
          /\ ActiveRows[i] # hOut[1]
          /\ Includes(ToLowerCase(GenderByPresence(ActiveRows[i])), filters.gender)
          /\ Includes(ToLowerCase(Str(ActiveRows[i], "allergies")), filters.allergy)
          /\ Includes(ToLowerCase(Str(ActiveRows[i], "accessibility")), filters.access)

-----------------------------------------------------------------------------
(* The tabular decoder applied to encoded record sets *)

RECURSIVE Join(_, _)
Join(parts, sep) ==
    IF Len(parts) = 0 THEN ""
    ELSE IF Len(parts) = 1 THEN parts[1]
    ELSE parts[1] \o sep \o Join(Tail(parts), sep)

\* Header row = the keys, then one comma-joined row per record, joined by line breaks.
Encode(keys, recs) ==
    Join(<<Join(keys, ",")>>
         \o [i \in 1..Len(recs) |-> Join([j \in 1..Len(keys) |-> recs[i][keys[j]]], ",")],
         "\n")

KeyLists == {<<>>, <<"k">>, <<"k", "n">>, <<"">>}

CellValues == {"", "a", "B c", " a", "a\nb", "a,b"}

KeySet(keys) == {keys[j] : j \in 1..Len(keys)}

\* Record sets of up to n records over each key list, with their encoding.
DecodeInputs(n) ==
    UNION {{[keys |-> keys, recs |-> recs, text |-> Encode(keys, recs)] :
              recs \in SeqsUpTo([KeySet(keys) -> CellValues], n)} :
           keys \in KeyLists}

DecodeInit ==
    /\ HomeInit /\ gen = 1
    /\ hIn \in DecodeInputs(MaxRecs)
    /\ hOut = <<>>
    /\ hPc = "decode"

\* parseCSV is applied to the text.
Decode ==
    /\ hPc = "decode"
    /\ hOut' = parseCSV(hIn.text)
    /\ hPc' = "decoded"
    /\ UNCHANGED <<homeVars, hIn>>

DecodeNext == Decode

SpecDecode == DecodeInit /\ [][DecodeNext]_vars

-----------------------------------------------------------------------------
(* Claims about the tabular decoder (specification SpecDecode) *)

DecodeDone == hPc = "decoded"

\* Every key and value of the record set satisfies P.
Cells == KeySet(hIn.keys)
         \cup {hIn.recs[i][k] : i \in 1..Len(hIn.recs), k \in KeySet(hIn.keys)}

NoCommas == \A c \in Cells : ~Includes(c, ",")

NoBreaksOrPadding == \A c \in Cells : ~Includes(c, "\n") /\ Trim(c) = c

\* Same number of records, same order, each equal as a mapping.
RoundTrips ==
    /\ Len(hOut) = Len(hIn.recs)
    /\ \A i \in 1..Len(hIn.recs) :
          /\ DOMAIN hOut[i] = KeySet(hIn.keys)
          /\ \A k \in KeySet(hIn.keys) : hOut[i][k] = hIn.recs[i][k]

\* C9 as claimed: records sharing their keys, with no comma in any value, are
\* decoded back from their encoding: as many, in order, equal as mappings.
C9_RoundTripNoCommas == (DecodeDone /\ NoCommas) => RoundTrips

\* C9 as amended: the round trip holds when moreover no key or value contains a
\* line break or has leading or trailing white space and the encoded text does
\* not begin or end with white space.
C9_RoundTrip ==
    (DecodeDone /\ NoCommas /\ NoBreaksOrPadding /\ Trim(hIn.text) = hIn.text)
        => RoundTrips

C9_Witness ==
    /\ DecodeDone /\ NoCommas /\ NoBreaksOrPadding /\ Trim(hIn.text) = hIn.text
    /\ Len(hIn.keys) = 2
    /\ Len(hIn.recs) = 2
    /\ hIn.recs[1]["k"] = "" /\ hIn.recs[1]["n"] = "B c"
    /\ hIn.recs[2]["n"] = ""
    /\ RoundTrips

====
